---- MODULE Spec2Model ----
(***************************************************************************)
(* Model of the AudioWidget of src/main.py: a floating widget with two     *)
(* sliders (speaker, microphone), two mute icons, a settings file, an      *)
(* autostart registry entry and a 200 ms timer that polls the OS audio     *)
(* endpoints.                                                              *)
(*                                                                         *)
(* The OS endpoint volume is a 32-bit float scalar in [0, 1] (the pycaw    *)
(* binding passes and returns c_float).  A scalar is represented here by   *)
(* its exact numerator over 2^30: every float32 in [2^-7, 1] is a multiple *)
(* of 2^-30, so float32(p / 100) is represented without loss for p >= 1.   *)
(***************************************************************************)
EXTENDS Integers, Sequences, FiniteSets, TLC

VARIABLES
    master_volume,      \* value of the speaker QSlider, 0..100
    mic_volume,         \* value of the microphone QSlider, 0..100
    is_master_muted,    \* locally held speaker mute flag
    is_mic_muted,       \* locally held microphone mute flag
    speaker_label,      \* glyph shown by the speaker label
    mic_label,          \* microphone glyph, with or without the strike-through
    osLevel,            \* OS endpoint level scalar (numerator over 2^30), per endpoint
    osMute,             \* OS endpoint mute flag, per endpoint
    settings,           \* self.settings, the in-memory settings dict
    file,               \* content of widget_settings.json
    pos,                \* window position (self.x(), self.y())
    registry,           \* TRUE iff the Run key holds an "AudioWidget" value
    tray_checked,       \* check mark of the tray menu's Autostart entry
    phase,              \* "running", "closed" (after closeEvent) or "crashed"
    update_timer,       \* "active" while the QTimer fires update_volumes
    last,               \* what the most recent operation did
    prev                \* the operation before it

vars == <<master_volume, mic_volume, is_master_muted, is_mic_muted, speaker_label,
          mic_label, osLevel, osMute, settings, file, pos, registry, tray_checked,
          phase, update_timer, last, prev>>

uiVars == <<master_volume, mic_volume, is_master_muted, is_mic_muted, speaker_label,
            mic_label>>

osVars == <<osLevel, osMute>>

settingsVars == <<settings, file, pos, registry, tray_checked>>

lifeVars == <<phase, update_timer>>

-----------------------------------------------------------------------------
(* Bounds and inputs *)

\* external programs set an endpoint's level to i/8 for i in 0..ExtMax
ExtMax == 1

\* window coordinates range over 0..MaxCoord
MaxCoord == 1

EP == {"speaker", "microphone"}

\* 1.0 as a numerator over 2^30
ScalarOne == 2^30

ExtLevels == {i * (ScalarOne \div 8) : i \in 0..ExtMax}

\* the percents a user drags a slider to: 25/100 is a float32 and reads back
\* as 25; float32(29/100) is below 0.29 and reads back as 28
UserPercents == {25, 29}

Positions == (0..MaxCoord) \X (0..MaxCoord)

-----------------------------------------------------------------------------
(* The scalar <-> percent conversions *)

Pow2(n) == 2^n

\* the binary exponent of p/100: the least j with p * 2^j >= 100  (p in 1..100)
RECURSIVE Shift(_, _)
Shift(p, j) == IF p * Pow2(j) >= 100 THEN j ELSE Shift(p, j + 1)

\* value / 100 passed as c_float: the float32 nearest to p/100, as a numerator
\* over 2^30.  With k = 23 + j the 24-bit mantissa is round(p * 2^k / 100)
\* = round(p * 2^(k-2) / 25); 25 is odd, so no tie occurs.
ToScalar(p) ==
    IF p = 0 THEN 0
    ELSE LET j == Shift(p, 0)
             h == Pow2(21 + j)
             q == h \div 25
             r == h % 25
             m == p * q + ((2 * p * r + 25) \div 50)
         IN  m * Pow2(7 - j)

\* int(scalar * 100): the product of a float32 and 100 is exact in a double,
\* so the result is floor(100 * n / 2^30) = floor(25 * n / 2^28)
ToPercent(n) ==
    LET c == n \div Pow2(14)
        d == n % Pow2(14)
    IN  (25 * c + ((25 * d) \div Pow2(14))) \div Pow2(14)

-----------------------------------------------------------------------------
(* Icons *)

\* "🔇" if self.is_master_muted else "🔊"
SpeakerGlyph(muted) == IF muted THEN "muted" ELSE "sound_on"

\* update_mic_icon: the base glyph, struck through when is_mic_muted
MicIcon(muted) == IF muted THEN "mic_struck" ELSE "mic"

-----------------------------------------------------------------------------
(* History records *)

\* how the reads of one endpoint end in update_volumes: all succeed; the
\* endpoint or its level cannot be read (GetSpeakers / GetMicrophone, Activate
\* or GetMasterVolumeLevelScalar raises); or GetMute raises
ReadOutcomes == {"ok", "level_failed", "mute_failed"}

\* op: the handler that ran; spk, mic: how the OS answers the reads of
\* update_volumes for the speaker and for the microphone;
\* ok: whether the handler's OS write or file write succeeded; value: the
\* percent a slider handler was called with; signals: the valueChanged
\* emissions delivered during the handler (each one a call of
\* change_*_volume); moved: the sliders the handler set programmatically;
\* flag, icon: the endpoint's mute flag and icon before a toggle
Op(op, spk, mic, ok, value, signals, moved, flag, icon) ==
    [op |-> op, spk |-> spk, mic |-> mic, ok |-> ok, value |-> value,
     signals |-> signals, moved |-> moved, flag |-> flag, icon |-> icon]

NoOp(op) == Op(op, "na", "na", FALSE, 0, 0, {}, FALSE, "na")

None == NoOp("none")

\* prev keeps the operation before the last one where two operations in a row
\* are looked at: a poll right after a slider change, a click on a mute icon
\* right after a click on the same icon
After(l, ops) == IF l.op \in ops THEN l ELSE None

SliderOps == {"change_master_volume", "change_mic_volume"}

-----------------------------------------------------------------------------
(* QSlider and the slider handlers *)

\* QSlider.setValue emits valueChanged when the value changes and the
\* slider's signals are not blocked
Emits(old, new, blocked) == new # old /\ ~blocked

\* a poll that calls setValue without blockSignals
PollLeavesSignals == FALSE

\* update_volumes wraps setValue in blockSignals(True) .. blockSignals(False)
PollBlocksSignals == TRUE

\* the outcomes of the OS write a call of setValue may lead to: none when
\* the slider's signals are blocked
WriteOutcomes(blocked) == IF blocked THEN {TRUE} ELSE BOOLEAN

\* change_master_volume / change_mic_volume: SetMasterVolumeLevelScalar(value / 100)
\* inside try/except; a failure leaves the OS level as it was
WriteLevel(level, value, ok) == IF ok THEN ToScalar(value) ELSE level

-----------------------------------------------------------------------------
(* update_volumes, per endpoint *)

\* the level was read: GetSpeakers/Activate and GetMasterVolumeLevelScalar
\* succeeded (GetMute, called after the slider update, may still fail)
LevelRead(outcome) == outcome \in {"ok", "mute_failed"}

\* a poll that takes the scalar for a percent: int(scalar) for int(scalar * 100)
PolledSliderUnscaled(outcome, slider, level) ==
    IF LevelRead(outcome) THEN ToPercent(level) \div 100 ELSE slider

\* a poll that reads the level and never moves the slider
PolledSliderKept(outcome, slider, level) == slider

\* if slider.value() != current_volume: slider.setValue(current_volume)
PolledSlider(outcome, slider, level) ==
    IF LevelRead(outcome) THEN ToPercent(level) ELSE slider

\* a poll that refreshes the mute flag inside the 'if' on the level
PolledMuteWhenMoved(outcome, flag, os, moved) ==
    IF outcome = "ok" /\ moved THEN os ELSE flag

\* self.is_*_muted = volume.GetMute(), outside the 'if' on the level
PolledMute(outcome, flag, os, moved) == IF outcome = "ok" THEN os ELSE flag

\* the speaker label is set inside the try block, after GetMute
PolledSpeakerLabel(outcome, label, flag) ==
    IF outcome = "ok" THEN SpeakerGlyph(flag) ELSE label

\* one try block around both endpoints: a speaker failure skips the microphone
MicBlockSkipped(spk) == spk = "ok"

\* the microphone block is a try block of its own: it runs whatever the
\* speaker block did
MicBlockRuns(spk) == TRUE

\* a click that mutes and never unmutes
ToggledFlagSet(flag) == TRUE

\* not self.is_*_muted
ToggledFlag(flag) == ~flag

Running == phase = "running"

\* The timer callback: both endpoints are read, each in its own try block.
update_volumes ==
    /\ Running
    /\ update_timer = "active"
    /\ \E spk \in ReadOutcomes, micTry \in ReadOutcomes,
          wS \in WriteOutcomes(PollBlocksSignals),
          wM \in WriteOutcomes(PollBlocksSignals) :
         LET mic  == IF MicBlockRuns(spk) THEN micTry ELSE "level_failed"
             newS == PolledSlider(spk, master_volume, osLevel["speaker"])
             newM == PolledSlider(mic, mic_volume, osLevel["microphone"])
             sigS == LevelRead(spk) /\ Emits(master_volume, newS, PollBlocksSignals)
             sigM == LevelRead(mic) /\ Emits(mic_volume, newM, PollBlocksSignals)
             mutS == PolledMute(spk, is_master_muted, osMute["speaker"],
                                newS # master_volume)
             mutM == PolledMute(mic, is_mic_muted, osMute["microphone"],
                                newM # mic_volume)
         IN  /\ master_volume' = newS
             /\ mic_volume' = newM
             /\ osLevel' = [e \in EP |->
                   IF e = "speaker"
                   THEN (IF sigS THEN WriteLevel(osLevel[e], newS, wS) ELSE osLevel[e])
                   ELSE (IF sigM THEN WriteLevel(osLevel[e], newM, wM) ELSE osLevel[e])]
             /\ is_master_muted' = mutS
             /\ speaker_label' = PolledSpeakerLabel(spk, speaker_label, mutS)
             /\ is_mic_muted' = mutM
             /\ mic_label' = MicIcon(mutM)
             /\ last' = Op("update_volumes", spk, micTry, FALSE, 0,
                           (IF sigS THEN 1 ELSE 0) + (IF sigM THEN 1 ELSE 0),
                           {e \in EP : \/ e = "speaker" /\ newS # master_volume
                                       \/ e = "microphone" /\ newM # mic_volume},
                           FALSE, "na")
    /\ prev' = After(last, SliderOps)
    /\ UNCHANGED <<osMute, settingsVars, lifeVars>>

\* The user moves the speaker slider to value: valueChanged(value) calls
\* change_master_volume(value).
change_master_volume ==
    /\ Running
    /\ \E value \in UserPercents, ok \in BOOLEAN :
         /\ Emits(master_volume, value, FALSE)
         /\ master_volume' = value
         /\ osLevel' = [osLevel EXCEPT !["speaker"] = WriteLevel(@, value, ok)]
         /\ last' = Op("change_master_volume", "na", "na", ok, value, 1, {},
                       FALSE, "na")
    /\ prev' = None
    /\ UNCHANGED <<mic_volume, is_master_muted, is_mic_muted, speaker_label, mic_label,
                   osMute, settingsVars, lifeVars>>

\* The user moves the microphone slider to value.
change_mic_volume ==
    /\ Running
    /\ \E value \in UserPercents, ok \in BOOLEAN :
         /\ Emits(mic_volume, value, FALSE)
         /\ mic_volume' = value
         /\ osLevel' = [osLevel EXCEPT !["microphone"] = WriteLevel(@, value, ok)]
         /\ last' = Op("change_mic_volume", "na", "na", ok, value, 1, {},
                       FALSE, "na")
    /\ prev' = None
    /\ UNCHANGED <<master_volume, is_master_muted, is_mic_muted, speaker_label,
                   mic_label, osMute, settingsVars, lifeVars>>

\* A click on the speaker icon.
toggle_mute_master ==
    /\ Running
    /\ \E ok \in BOOLEAN :
         /\ is_master_muted' = ToggledFlag(is_master_muted)
         /\ osMute' = [osMute EXCEPT !["speaker"] = IF ok THEN is_master_muted' ELSE @]
         /\ speaker_label' = SpeakerGlyph(is_master_muted')
         /\ last' = Op("toggle_mute_master", "na", "na", ok, 0, 0, {},
                       is_master_muted, speaker_label)
    /\ prev' = After(last, {"toggle_mute_master"})
    /\ UNCHANGED <<master_volume, mic_volume, is_mic_muted, mic_label, osLevel,
                   settingsVars, lifeVars>>

\* A click on the microphone icon.
toggle_mute_mic ==
    /\ Running
    /\ \E ok \in BOOLEAN :
         /\ is_mic_muted' = ToggledFlag(is_mic_muted)
         /\ osMute' = [osMute EXCEPT !["microphone"] = IF ok THEN is_mic_muted' ELSE @]
         /\ mic_label' = MicIcon(is_mic_muted')
         /\ last' = Op("toggle_mute_mic", "na", "na", ok, 0, 0, {},
                       is_mic_muted, mic_label)
    /\ prev' = After(last, {"toggle_mute_mic"})
    /\ UNCHANGED <<master_volume, mic_volume, is_master_muted, speaker_label, osLevel,
                   settingsVars, lifeVars>>

\* Another program (or the OS mixer) changes an endpoint's level or mute flag.
ExternalChange ==
    /\ \E e \in EP :
         \/ /\ \E level \in ExtLevels \ {osLevel[e]} :
                  osLevel' = [osLevel EXCEPT ![e] = level]
            /\ UNCHANGED osMute
         \/ /\ osMute' = [osMute EXCEPT ![e] = ~@]
            /\ UNCHANGED osLevel
    /\ last' = NoOp("external")
    /\ prev' = None
    /\ UNCHANGED <<uiVars, settingsVars, lifeVars>>

-----------------------------------------------------------------------------
(* Settings: the dict, the JSON file, the registry *)

\* the colours QColorDialog returns (color.name())
Colors == {"#ff0000"}

\* opacities in percent (the spin box value v; the dict holds v / 100)
BackgroundOpacities == {100}

ButtonsOpacities == {20}

\* settings['position']: absent, the tuple closeEvent stores, or the list
\* json.load returns
NoPosition == [kind |-> "absent", x |-> 0, y |-> 0]

PositionTuple(p) == [kind |-> "tuple", x |-> p[1], y |-> p[2]]

\* the dict load_settings returns when the file cannot be read or parsed
Defaults ==
    [background_color |-> "#2E2E2E", background_opacity |-> 60,
     buttons_color |-> "#2E2E2E", buttons_opacity |-> 90,
     autostart |-> FALSE, position |-> NoPosition]

NoFile == [state |-> "missing", data |-> Defaults]

CorruptFile == [state |-> "corrupt", data |-> Defaults]

\* json.dump writes a tuple as a JSON array, which json.load reads as a list
JsonDump(d) ==
    [d EXCEPT !.position = IF @.kind = "tuple" THEN [@ EXCEPT !.kind = "list"] ELSE @]

\* load_settings: the parsed file, or the defaults on any exception
load_settings(f) == IF f.state = "json" THEN f.data ELSE Defaults

SaveOutcomes == {"ok", "open_failed", "write_failed"}

\* save_settings: open(.., 'w') and json.dump, with no try/except.  A failed
\* open leaves the file as it was; a failure after the open leaves it
\* truncated.
save_settings(f, d, outcome) ==
    CASE outcome = "ok" -> [state |-> "json", data |-> JsonDump(d)]
      [] outcome = "open_failed" -> f
      [] OTHER -> CorruptFile

\* an exception that leaves save_settings leaves the handler that called it:
\* PyQt aborts the process on an unhandled exception in a slot or event handler
Raises(outcome) == outcome # "ok"

\* setup_auto_start: SetValueEx or DeleteValue under the Run key, every
\* failure swallowed
setup_auto_start(reg, autostart, ok) == IF ok THEN autostart ELSE reg

\* a test that takes the origin for no position: 'if x or y'
TruthyNonZero(position) ==
    position.kind # "absent" /\ (position.x # 0 \/ position.y # 0)

\* 'if saved_position:' -- a stored tuple or list of two numbers is truthy
Truthy(position) == position.kind # "absent"

-----------------------------------------------------------------------------
(* Construction: __init__, init_ui, init_volumes, setup_tray *)

\* init_volumes calls setValue without blocking the slider's signals
InitBlocksSignals == FALSE

\* the slider after init_volumes: a fresh QSlider holds 0
InitSlider(level, readOK) == IF readOK THEN ToPercent(level) ELSE 0

\* the OS level after init_volumes: setValue emits valueChanged when the value
\* differs from 0, and the connected change_*_volume writes it back
InitLevel(level, readOK, writeOK) ==
    IF readOK /\ Emits(0, ToPercent(level), InitBlocksSignals)
    THEN WriteLevel(level, ToPercent(level), writeOK)
    ELSE level

InitSignals(level, readOK) ==
    IF readOK /\ Emits(0, ToPercent(level), InitBlocksSignals) THEN 1 ELSE 0

\* the state __init__ builds from the settings file f, the OS levels lv, the
\* outcomes rd, wr of the OS calls of init_volumes, the outcome regOK of the
\* registry call, the registry reg and the place wm the window manager gives
\* a window that is not moved
Built(f, lv, rd, wr, reg, regOK, wm) ==
    LET d == load_settings(f)
    IN  [master_volume |-> InitSlider(lv["speaker"], rd["speaker"]),
         mic_volume |-> InitSlider(lv["microphone"], rd["microphone"]),
         osLevel |-> [e \in EP |-> InitLevel(lv[e], rd[e], wr[e])],
         settings |-> d,
         pos |-> IF Truthy(d.position) THEN <<d.position.x, d.position.y>> ELSE wm,
         registry |-> setup_auto_start(reg, d.autostart, regOK),
         tray_checked |-> d.autostart,
         last |-> Op("__init__", "na", "na", FALSE, 0,
                     InitSignals(lv["speaker"], rd["speaker"])
                       + InitSignals(lv["microphone"], rd["microphone"]),
                     {e \in EP : rd[e] /\ ToPercent(lv[e]) # 0},
                     FALSE, "na")]

\* the outcomes of the OS calls that make a difference to init_volumes: a
\* level of 0 percent leaves the fresh slider alone, read or not, and a write
\* follows a read only
ReadChoices(lv) ==
    {rd \in [EP -> BOOLEAN] : \A e \in EP : ToPercent(lv[e]) = 0 => rd[e]}

WriteChoices(lv, rd) ==
    {wr \in [EP -> BOOLEAN] : \A e \in EP : (ToPercent(lv[e]) = 0 \/ ~rd[e]) => wr[e]}

\* the outcomes of the registry call that make a difference
RegChoices(f, reg) == IF load_settings(f).autostart = reg THEN {TRUE} ELSE BOOLEAN

\* where the window manager may put a window: anywhere, when __init__ does
\* not move it
Placements(f) == IF Truthy(load_settings(f).position) THEN {<<0, 0>>} ELSE Positions

\* The first launch: no settings file, no registry entry, any OS state; the
\* window manager puts the window at the origin.
Init ==
    \E lv \in [EP -> ExtLevels] :
     \E rd \in ReadChoices(lv) :
      \E wr \in WriteChoices(lv, rd) :
       LET b == Built(NoFile, lv, rd, wr, FALSE, TRUE, <<0, 0>>)
       IN  /\ master_volume = b.master_volume
           /\ mic_volume = b.mic_volume
           /\ osLevel = b.osLevel
           /\ settings = b.settings
           /\ pos = b.pos
           /\ registry = b.registry
           /\ tray_checked = b.tray_checked
           /\ last = b.last
    /\ osMute \in [EP -> BOOLEAN]
    /\ is_master_muted = FALSE
    /\ is_mic_muted = FALSE
    /\ speaker_label = "sound_on"
    /\ mic_label = "mic"
    /\ file = NoFile
    /\ phase = "running"
    /\ update_timer = "active"
    /\ prev = None

\* A later launch, after the widget was closed or has crashed.
Launch ==
    /\ phase \in {"closed", "crashed"}
    /\ \E rd \in ReadChoices(osLevel), regOK \in RegChoices(file, registry),
          wm \in Placements(file) :
        \E wr \in WriteChoices(osLevel, rd) :
          LET b == Built(file, osLevel, rd, wr, registry, regOK, wm)
          IN  /\ master_volume' = b.master_volume
              /\ mic_volume' = b.mic_volume
              /\ osLevel' = b.osLevel
              /\ settings' = b.settings
              /\ pos' = b.pos
              /\ registry' = b.registry
              /\ tray_checked' = b.tray_checked
              /\ last' = b.last
    /\ is_master_muted' = FALSE
    /\ is_mic_muted' = FALSE
    /\ speaker_label' = "sound_on"
    /\ mic_label' = "mic"
    /\ phase' = "running"
    /\ update_timer' = "active"
    /\ prev' = After(last, {"closeEvent"})
    /\ UNCHANGED <<osMute, file>>

-----------------------------------------------------------------------------
(* Settings handlers *)

\* what a handler that stores d and calls save_settings leaves behind: the
\* dict is changed before the save; a save that raises ends the process
Saved(d, outcome) ==
    /\ settings' = d
    /\ file' = save_settings(file, d, outcome)
    /\ phase' = IF Raises(outcome) THEN "crashed" ELSE phase
    /\ update_timer' = IF Raises(outcome) THEN "stopped" ELSE update_timer

SettingsOp(op, outcome) ==
    Op(op, "na", "na", ~Raises(outcome), 0, 0, {}, FALSE, "na")

change_background_color ==
    /\ Running
    /\ \E c \in Colors, outcome \in SaveOutcomes :
         /\ Saved([settings EXCEPT !.background_color = c], outcome)
         /\ last' = SettingsOp("change_background_color", outcome)
    /\ prev' = None
    /\ UNCHANGED <<uiVars, osVars, pos, registry, tray_checked>>

change_background_opacity ==
    /\ Running
    /\ \E v \in BackgroundOpacities, outcome \in SaveOutcomes :
         /\ Saved([settings EXCEPT !.background_opacity = v], outcome)
         /\ last' = SettingsOp("change_background_opacity", outcome)
    /\ prev' = None
    /\ UNCHANGED <<uiVars, osVars, pos, registry, tray_checked>>

change_buttons_color ==
    /\ Running
    /\ \E c \in Colors, outcome \in SaveOutcomes :
         /\ Saved([settings EXCEPT !.buttons_color = c], outcome)
         /\ last' = SettingsOp("change_buttons_color", outcome)
    /\ prev' = None
    /\ UNCHANGED <<uiVars, osVars, pos, registry, tray_checked>>

change_buttons_opacity ==
    /\ Running
    /\ \E v \in ButtonsOpacities, outcome \in SaveOutcomes :
         /\ Saved([settings EXCEPT !.buttons_opacity = v], outcome)
         /\ last' = SettingsOp("change_buttons_opacity", outcome)
    /\ prev' = None
    /\ UNCHANGED <<uiVars, osVars, pos, registry, tray_checked>>

\* toggle_autostart(checked): the dict, the save, then the registry
Autostart(checked, outcome, regOK) ==
    /\ Saved([settings EXCEPT !.autostart = checked], outcome)
    /\ registry' = IF Raises(outcome) THEN registry
                   ELSE setup_auto_start(registry, checked, regOK)

\* The Autostart entry of the options menu: a new QAction on every opening,
\* checked from the settings; the click toggles it.
toggle_autostart_options ==
    /\ Running
    /\ \E outcome \in SaveOutcomes, regOK \in BOOLEAN :
         /\ Autostart(~settings.autostart, outcome, regOK)
         /\ last' = SettingsOp("toggle_autostart_options", outcome)
    /\ prev' = None
    /\ UNCHANGED <<uiVars, osVars, pos, tray_checked>>

\* The Autostart entry of the tray menu: one QAction, checked from the
\* settings in setup_tray; the click toggles its own check mark.
toggle_autostart_tray ==
    /\ Running
    /\ \E outcome \in SaveOutcomes, regOK \in BOOLEAN :
         /\ tray_checked' = ~tray_checked
         /\ Autostart(tray_checked', outcome, regOK)
         /\ last' = SettingsOp("toggle_autostart_tray", outcome)
    /\ prev' = None
    /\ UNCHANGED <<uiVars, osVars, pos>>

\* Dragging the window: self.move(self.x() + delta.x(), self.y() + delta.y())
mouseMoveEvent ==
    /\ Running
    /\ \E p \in Positions :
         /\ p # pos
         /\ pos' = p
    /\ last' = NoOp("mouseMoveEvent")
    /\ prev' = None
    /\ UNCHANGED <<uiVars, osVars, settings, file, registry, tray_checked, lifeVars>>

\* Closing the window: the position is stored and saved, then the window
\* closes and, being the last one, ends the application.
closeEvent ==
    /\ Running
    /\ \E outcome \in SaveOutcomes :
         /\ settings' = [settings EXCEPT !.position = PositionTuple(pos)]
         /\ file' = save_settings(file, settings', outcome)
         /\ phase' = IF Raises(outcome) THEN "crashed" ELSE "closed"
         /\ last' = SettingsOp("closeEvent", outcome)
    /\ update_timer' = "stopped"
    /\ prev' = None
    /\ UNCHANGED <<uiVars, osVars, pos, registry, tray_checked>>

-----------------------------------------------------------------------------
(* Specifications *)

\* the audio side: the poll, the sliders, the mute icons, the OS mixer
Next ==
    \/ update_volumes
    \/ change_master_volume
    \/ change_mic_volume
    \/ toggle_mute_master
    \/ toggle_mute_mic
    \/ ExternalChange

Spec == Init /\ [][Next]_vars

\* the settings side: the dialogs, autostart, closing, launching
NextSettings ==
    \/ change_background_color
    \/ change_background_opacity
    \/ change_buttons_color
    \/ change_buttons_opacity
    \/ toggle_autostart_options
    \/ toggle_autostart_tray
    \/ closeEvent
    \/ Launch

\* the settings side is looked at with a silent mixer that nothing touches
InitSettings ==
    /\ Init
    /\ \A e \in EP : osLevel[e] = 0 /\ ~osMute[e]

SpecSettings == InitSettings /\ [][NextSettings]_vars

\* the window: dragging, closing and launching, among other saved changes
NextWindow ==
    \/ mouseMoveEvent
    \/ closeEvent
    \/ Launch
    \/ change_background_color
    \/ change_buttons_opacity
    \/ toggle_autostart_options

SpecWindow == InitSettings /\ [][NextWindow]_vars

\* starting the widget again and again over a mixer that other programs
\* change between one run and the next
NextLaunch ==
    \/ Launch
    \/ closeEvent
    \/ ExternalChange

SpecLaunch == Init /\ [][NextLaunch]_vars

-----------------------------------------------------------------------------
(* Properties of the poll and the sliders *)

Polled == last.op = "update_volumes"

\* C1: when the user has set the speaker slider to p with the OS write
\* succeeding, and the poll that runs right after it reads p from the OS, the
\* slider is still at p after the poll, the poll has delivered no valueChanged
\* (no further call of change_master_volume) and the OS level is still the
\* one the user's write left.
C1_SetThenPollKeepsSlider ==
    ( /\ Polled
      /\ prev.op = "change_master_volume"
      /\ prev.ok
      /\ LevelRead(last.spk)
      /\ ToPercent(osLevel["speaker"]) = prev.value )
    => /\ master_volume = prev.value
       /\ last.signals = 0
       /\ osLevel["speaker"] = ToScalar(prev.value)

\* a poll right after the user set the speaker slider to 25: the OS holds
\* 0.25 and answers 25
C1_Witness ==
    /\ Polled
    /\ prev.op = "change_master_volume"
    /\ prev.ok
    /\ prev.value = 25
    /\ last.spk = "ok"
    /\ osLevel["speaker"] = ToScalar(25)
    /\ master_volume = 25

\* C2: no poll delivers a valueChanged of either slider or writes an OS
\* level: the OS level of both endpoints is the same after the poll as before
\* it, whether the poll moved a slider or left it alone.
C2_PollNeverWrites ==
    [][ last'.op = "update_volumes" => (last'.signals = 0 /\ osLevel' = osLevel) ]_vars

\* a poll that moved the speaker slider to an OS level that is no whole
\* percent (0.125, shown as 12) and left the microphone slider alone
C2_Witness ==
    /\ Polled
    /\ last.spk = "ok"
    /\ last.mic = "ok"
    /\ last.moved = {"speaker"}
    /\ last.signals = 0
    /\ osLevel["speaker"] = ScalarOne \div 8
    /\ master_volume = 12

\* C3: a poll in which the microphone reads fail and the speaker reads
\* succeed leaves the speaker slider, flag and glyph at the OS values; a poll
\* in which the speaker reads fail and the microphone reads succeed leaves the
\* microphone slider, flag and icon at the OS values.
C3_FailuresIsolated ==
    /\ (Polled /\ last.mic # "ok" /\ last.spk = "ok")
         => /\ master_volume = ToPercent(osLevel["speaker"])
            /\ is_master_muted = osMute["speaker"]
            /\ speaker_label = SpeakerGlyph(osMute["speaker"])
    /\ (Polled /\ last.spk # "ok" /\ last.mic = "ok")
         => /\ mic_volume = ToPercent(osLevel["microphone"])
            /\ is_mic_muted = osMute["microphone"]
            /\ mic_label = MicIcon(osMute["microphone"])

\* the microphone cannot be read; the speaker slider is moved and the speaker
\* shown muted in the same poll
C3_Witness ==
    /\ Polled
    /\ last.mic = "level_failed"
    /\ last.spk = "ok"
    /\ "speaker" \in last.moved
    /\ is_master_muted
    /\ speaker_label = "muted"
    /\ mic_volume # ToPercent(osLevel["microphone"])

\* C4: when a read of an endpoint fails during a poll, the slider, the mute
\* flag and the icon of that endpoint are the same after the poll as before.
C4_FailedReadLeavesEndpoint ==
    [][ last'.op = "update_volumes" =>
          /\ last'.spk # "ok" =>
               /\ master_volume' = master_volume
               /\ is_master_muted' = is_master_muted
               /\ speaker_label' = speaker_label
          /\ last'.mic # "ok" =>
               /\ mic_volume' = mic_volume
               /\ is_mic_muted' = is_mic_muted
               /\ mic_label' = mic_label ]_vars

\* C5: after a poll in which the reads of an endpoint succeed, the mute flag
\* and the icon of that endpoint are those of the OS mute flag, whether the
\* poll moved the slider or not.
C5_MuteFollowsOS ==
    /\ (Polled /\ last.spk = "ok")
         => /\ is_master_muted = osMute["speaker"]
            /\ speaker_label = SpeakerGlyph(osMute["speaker"])
    /\ (Polled /\ last.mic = "ok")
         => /\ is_mic_muted = osMute["microphone"]
            /\ mic_label = MicIcon(osMute["microphone"])

\* both endpoints muted in the OS; the poll shows both muted, having moved
\* the microphone slider and left the speaker slider alone
C5_Witness ==
    /\ Polled
    /\ last.spk = "ok"
    /\ last.mic = "ok"
    /\ last.moved = {"microphone"}
    /\ osMute["speaker"]
    /\ osMute["microphone"]
    /\ speaker_label = "muted"
    /\ mic_label = "mic_struck"

-----------------------------------------------------------------------------
(* Properties of the mute icons *)

\* C6: after two clicks in a row on the icon of an endpoint, the mute flag
\* and the icon of that endpoint are those from before the first click.
C6_ToggleTwice ==
    /\ (last.op = "toggle_mute_master" /\ prev.op = "toggle_mute_master")
         => /\ is_master_muted = prev.flag
            /\ speaker_label = prev.icon
    /\ (last.op = "toggle_mute_mic" /\ prev.op = "toggle_mute_mic")
         => /\ is_mic_muted = prev.flag
            /\ mic_label = prev.icon

\* two clicks on the microphone icon that started struck through, the first
\* of them with a failing OS write
C6_Witness ==
    /\ last.op = "toggle_mute_mic"
    /\ prev.op = "toggle_mute_mic"
    /\ prev.flag
    /\ prev.icon = "mic_struck"
    /\ ~prev.ok
    /\ is_mic_muted

\* C7: a slider handler whose OS write fails leaves the slider at the value
\* the user asked for and the widget running; a poll that reads the level of
\* an endpoint leaves that endpoint's slider at the percent of the OS level.
C7_PollCorrectsFailedWrite ==
    /\ (last.op = "change_master_volume" /\ ~last.ok)
         => (master_volume = last.value /\ Running /\ update_timer = "active")
    /\ (last.op = "change_mic_volume" /\ ~last.ok)
         => (mic_volume = last.value /\ Running /\ update_timer = "active")
    /\ (Polled /\ LevelRead(last.spk))
         => master_volume = ToPercent(osLevel["speaker"])
    /\ (Polled /\ LevelRead(last.mic))
         => mic_volume = ToPercent(osLevel["microphone"])

\* the write of 29 percent failed; the poll right after it has put the
\* speaker slider back to the 12 percent of the OS
C7_Witness ==
    /\ Polled
    /\ prev.op = "change_master_volume"
    /\ ~prev.ok
    /\ prev.value = 29
    /\ LevelRead(last.spk)
    /\ master_volume = 12

\* C10: a click on a mute icon whose OS write succeeds leaves the OS mute
\* flag of that endpoint the negation of what it was before the click, and
\* the icon showing the new OS value.
C10_ClickTogglesDevice ==
    [][ /\ (last'.op = "toggle_mute_master" /\ last'.ok)
             => /\ osMute'["speaker"] = ~osMute["speaker"]
                /\ speaker_label' = SpeakerGlyph(osMute'["speaker"])
        /\ (last'.op = "toggle_mute_mic" /\ last'.ok)
             => /\ osMute'["microphone"] = ~osMute["microphone"]
                /\ mic_label' = MicIcon(osMute'["microphone"]) ]_vars

-----------------------------------------------------------------------------
(* Properties of the construction *)

\* C11: an OS level changes only in a user's slider change (or by another
\* program): constructing the widget delivers no valueChanged and leaves the
\* OS level of both endpoints as it was, whatever the level.
C11_ConstructionWritesNothing ==
    [][ /\ last'.op = "__init__" => (last'.signals = 0 /\ osLevel' = osLevel)
        /\ osLevel' # osLevel => last'.op \in SliderOps \cup {"external"} ]_vars

-----------------------------------------------------------------------------
(* Properties of the settings *)

\* C8: no failure leaves the handler it occurs in: the widget never ends
\* by an unhandled exception, and while it runs its timer is polling.
C8_NoFailurePropagates ==
    /\ phase # "crashed"
    /\ Running => update_timer = "active"

AutostartOps == {"toggle_autostart_options", "toggle_autostart_tray"}

\* C12: after a click on the Autostart entry of the options menu or of the
\* tray menu, the check mark of the tray entry is settings['autostart'],
\* settings['autostart'] is the negation of what it was before the click,
\* and, the save having succeeded, the registry entry is there iff the new
\* value is true unless the registry call failed and left it as it was.
C12_TrayMarkIsAutostart ==
    [][ last'.op \in AutostartOps =>
          /\ tray_checked' = settings'.autostart
          /\ settings'.autostart = ~settings.autostart
          /\ last'.ok => registry' \in {settings'.autostart, registry} ]_vars

\* C9: a closeEvent whose save succeeds writes the window's position to the
\* settings file, and the launch that follows puts the window at the position
\* it had when it was closed.
C9_PositionRestored ==
    [][ /\ (last'.op = "closeEvent" /\ last'.ok)
             => /\ file'.state = "json"
                /\ file'.data.position = [kind |-> "list", x |-> pos[1], y |-> pos[2]]
        /\ (last.op = "closeEvent" /\ last.ok /\ last'.op = "__init__")
             => pos' = pos ]_vars

\* closed at the origin after a drag, with a colour and the autostart flag
\* saved earlier in the session, and launched again there
C9_Witness ==
    /\ last.op = "__init__"
    /\ prev.op = "closeEvent"
    /\ prev.ok
    /\ pos = <<0, 0>>
    /\ settings.position = [kind |-> "list", x |-> 0, y |-> 0]
    /\ settings.background_color = "#ff0000"
    /\ settings.autostart

====
